---- MODULE Spec2Model ----
(***************************************************************************)
(* A model of the maze pursuit game of maze.py: the Maze container, the    *)
(* Position arithmetic, and the Game engine (placement, do_round, play).   *)
(*                                                                         *)
(* One Game is modelled.  Its three players are three distinct instances.  *)
(* The players' take_turn is arbitrary: each call returns any of the six   *)
(* Move singletons or an object that is none of them, or raises.           *)
(*                                                                         *)
(* Python lists are 0-based and TLA+ sequences 1-based: _cells[y][x] of    *)
(* the source is cells[y + 1][x + 1] here.                                 *)
(***************************************************************************)
EXTENDS Integers, Sequences, FiniteSets, TLC

VARIABLES
    maze,           \* Game.maze: [width, height, cells]
    position,       \* Game.position: player -> Position
    round,          \* Game.round
    max_rounds,     \* Game.max_rounds
    ping,           \* Game.ping
    status,         \* Game.status
    pc,             \* where control is: "idle" (in no call), "play" (in play, about to call do_round),
                    \* "turn" (in do_round's for loop), "play_check" (in play, after do_round returned)
    idx,            \* index in Game.players of the player whose turn is next (for loop of do_round)
    ping_response,  \* local of do_round: player -> None or the player's ping dict
    playing,        \* TRUE while play() is on the stack
    result,         \* outcome of the latest do_round call: the returned status, the name of the exception when it raised, "none" before any call and while the players have their turns
    play_ret,       \* None, or the (result, round) pair play() returned
    calls,          \* history: number of do_round calls made so far (where a Maze is multiplied:
                    \* of assignments made to the product)
    called,         \* history: the players whose take_turn was called in the latest do_round call, in order
    start,          \* history: Game.position as it was when the latest do_round call began
    passed,         \* history: the ping_response argument of each take_turn call of the latest do_round call, in order
    pinged,         \* history: a Goody returned PING, and it was handled, in the latest round in which the players had turns
    taken,          \* local of _place_players: the positions given out so far
    attempts,       \* local of _place_players: the draws that failed for the player being placed
    query,          \* the latest operation made on a Maze alone, with its outcome
    tiled,          \* None, or Some(the Maze that maze * (x_repeats, y_repeats) returned)
    tpw,            \* None, or Some(the attributes of the TPWGoody that plays goody0)
    others          \* history: number of take_turn calls so far that did other than return a Move

vars == <<maze, position, round, max_rounds, ping, status, pc, idx, ping_response,
          playing, result, play_ret, calls, called, start, passed, pinged,
          taken, attempts, query, tiled, tpw, others>>

-----------------------------------------------------------------------------
(* Bounds of the model *)

MaxMaxRounds == 3     \* max_rounds ranges over 0..MaxMaxRounds
MaxCalls == 4         \* at most MaxCalls calls of do_round are made

-----------------------------------------------------------------------------
(* Optional values: None is the empty sequence, a value v is <<v>> *)

None == << >>

Some(v) == <<v>>

-----------------------------------------------------------------------------
(* Move: the six singletons.  Move defines __hash__ and no __eq__, so that
   a Move equals itself only. *)

STAY == "stay"
UP == "up"
LEFT == "left"
DOWN == "down"
RIGHT == "right"
PING == "ping"

Moves == {STAY, UP, LEFT, DOWN, RIGHT, PING}

-----------------------------------------------------------------------------
(* Position *)

Position(x, y) == [x |-> x, y |-> y]

Position_add(self, other) == Position(self.x + other.x, self.y + other.y)

\* Position.__sub__ with the operands the other way round
Position_sub_swapped(self, other) == [x |-> other.x - self.x, y |-> other.y - self.y]

Position_sub(self, other) == Position(self.x - other.x, self.y - other.y)

Position_neg(self) == Position(0 - self.x, 0 - self.y)

\* Position.__eq__ for two Positions
Position_eq(self, other) == self.x = other.x /\ self.y = other.y

\* Position.l1_norm
Position_l1_norm(self) ==
    (IF self.x >= 0 THEN self.x ELSE 0 - self.x) + (IF self.y >= 0 THEN self.y ELSE 0 - self.y)

ZERO == Position(0, 0)
DX == Position(1, 0)
DY == Position(0, 1)

\* STEP with the y axis pointing down
STEP_y_down == [m \in {UP, LEFT, DOWN, RIGHT, STAY} |->
                   CASE m = UP -> Position_neg(DY)
                     [] m = LEFT -> Position_neg(DX)
                     [] m = DOWN -> DY
                     [] m = RIGHT -> DX
                     [] m = STAY -> ZERO]

\* lines 114-118
STEP == [m \in {UP, LEFT, DOWN, RIGHT, STAY} |->
            CASE m = UP -> DY
              [] m = LEFT -> Position_neg(DX)
              [] m = DOWN -> Position_neg(DY)
              [] m = RIGHT -> DX
              [] m = STAY -> ZERO]

-----------------------------------------------------------------------------
(* Maze *)

Maze_space == 0
Maze_wall == 1

\* The one-character strings that int() converts, by value: Digit[v + 1] holds
\* the characters of the Unicode category Nd (decimal digit) whose value is v.
\* A character of ASCII is written as itself and any other character by its
\* code point, "U+0663" for ARABIC-INDIC DIGIT THREE.
Digit == <<
    {
     "0", "U+0660", "U+06F0", "U+07C0", "U+0966", "U+09E6", "U+0A66", "U+0AE6",
     "U+0B66", "U+0BE6", "U+0C66", "U+0CE6", "U+0D66", "U+0DE6", "U+0E50", "U+0ED0",
     "U+0F20", "U+1040", "U+1090", "U+17E0", "U+1810", "U+1946", "U+19D0", "U+1A80",
     "U+1A90", "U+1B50", "U+1BB0", "U+1C40", "U+1C50", "U+A620", "U+A8D0", "U+A900",
     "U+A9D0", "U+A9F0", "U+AA50", "U+ABF0", "U+FF10", "U+104A0", "U+10D30", "U+11066",
     "U+110F0", "U+11136", "U+111D0", "U+112F0", "U+11450", "U+114D0", "U+11650",
     "U+116C0", "U+11730", "U+118E0", "U+11950", "U+11C50", "U+11D50", "U+11DA0",
     "U+16A60", "U+16AC0", "U+16B50", "U+1D7CE", "U+1D7D8", "U+1D7E2", "U+1D7EC",
     "U+1D7F6", "U+1E140", "U+1E2F0", "U+1E950", "U+1FBF0"},
    {
     "1", "U+0661", "U+06F1", "U+07C1", "U+0967", "U+09E7", "U+0A67", "U+0AE7",
     "U+0B67", "U+0BE7", "U+0C67", "U+0CE7", "U+0D67", "U+0DE7", "U+0E51", "U+0ED1",
     "U+0F21", "U+1041", "U+1091", "U+17E1", "U+1811", "U+1947", "U+19D1", "U+1A81",
     "U+1A91", "U+1B51", "U+1BB1", "U+1C41", "U+1C51", "U+A621", "U+A8D1", "U+A901",
     "U+A9D1", "U+A9F1", "U+AA51", "U+ABF1", "U+FF11", "U+104A1", "U+10D31", "U+11067",
     "U+110F1", "U+11137", "U+111D1", "U+112F1", "U+11451", "U+114D1", "U+11651",
     "U+116C1", "U+11731", "U+118E1", "U+11951", "U+11C51", "U+11D51", "U+11DA1",
     "U+16A61", "U+16AC1", "U+16B51", "U+1D7CF", "U+1D7D9", "U+1D7E3", "U+1D7ED",
     "U+1D7F7", "U+1E141", "U+1E2F1", "U+1E951", "U+1FBF1"},
    {
     "2", "U+0662", "U+06F2", "U+07C2", "U+0968", "U+09E8", "U+0A68", "U+0AE8",
     "U+0B68", "U+0BE8", "U+0C68", "U+0CE8", "U+0D68", "U+0DE8", "U+0E52", "U+0ED2",
     "U+0F22", "U+1042", "U+1092", "U+17E2", "U+1812", "U+1948", "U+19D2", "U+1A82",
     "U+1A92", "U+1B52", "U+1BB2", "U+1C42", "U+1C52", "U+A622", "U+A8D2", "U+A902",
     "U+A9D2", "U+A9F2", "U+AA52", "U+ABF2", "U+FF12", "U+104A2", "U+10D32", "U+11068",
     "U+110F2", "U+11138", "U+111D2", "U+112F2", "U+11452", "U+114D2", "U+11652",
     "U+116C2", "U+11732", "U+118E2", "U+11952", "U+11C52", "U+11D52", "U+11DA2",
     "U+16A62", "U+16AC2", "U+16B52", "U+1D7D0", "U+1D7DA", "U+1D7E4", "U+1D7EE",
     "U+1D7F8", "U+1E142", "U+1E2F2", "U+1E952", "U+1FBF2"},
    {
     "3", "U+0663", "U+06F3", "U+07C3", "U+0969", "U+09E9", "U+0A69", "U+0AE9",
     "U+0B69", "U+0BE9", "U+0C69", "U+0CE9", "U+0D69", "U+0DE9", "U+0E53", "U+0ED3",
     "U+0F23", "U+1043", "U+1093", "U+17E3", "U+1813", "U+1949", "U+19D3", "U+1A83",
     "U+1A93", "U+1B53", "U+1BB3", "U+1C43", "U+1C53", "U+A623", "U+A8D3", "U+A903",
     "U+A9D3", "U+A9F3", "U+AA53", "U+ABF3", "U+FF13", "U+104A3", "U+10D33", "U+11069",
     "U+110F3", "U+11139", "U+111D3", "U+112F3", "U+11453", "U+114D3", "U+11653",
     "U+116C3", "U+11733", "U+118E3", "U+11953", "U+11C53", "U+11D53", "U+11DA3",
     "U+16A63", "U+16AC3", "U+16B53", "U+1D7D1", "U+1D7DB", "U+1D7E5", "U+1D7EF",
     "U+1D7F9", "U+1E143", "U+1E2F3", "U+1E953", "U+1FBF3"},
    {
     "4", "U+0664", "U+06F4", "U+07C4", "U+096A", "U+09EA", "U+0A6A", "U+0AEA",
     "U+0B6A", "U+0BEA", "U+0C6A", "U+0CEA", "U+0D6A", "U+0DEA", "U+0E54", "U+0ED4",
     "U+0F24", "U+1044", "U+1094", "U+17E4", "U+1814", "U+194A", "U+19D4", "U+1A84",
     "U+1A94", "U+1B54", "U+1BB4", "U+1C44", "U+1C54", "U+A624", "U+A8D4", "U+A904",
     "U+A9D4", "U+A9F4", "U+AA54", "U+ABF4", "U+FF14", "U+104A4", "U+10D34", "U+1106A",
     "U+110F4", "U+1113A", "U+111D4", "U+112F4", "U+11454", "U+114D4", "U+11654",
     "U+116C4", "U+11734", "U+118E4", "U+11954", "U+11C54", "U+11D54", "U+11DA4",
     "U+16A64", "U+16AC4", "U+16B54", "U+1D7D2", "U+1D7DC", "U+1D7E6", "U+1D7F0",
     "U+1D7FA", "U+1E144", "U+1E2F4", "U+1E954", "U+1FBF4"},
    {
     "5", "U+0665", "U+06F5", "U+07C5", "U+096B", "U+09EB", "U+0A6B", "U+0AEB",
     "U+0B6B", "U+0BEB", "U+0C6B", "U+0CEB", "U+0D6B", "U+0DEB", "U+0E55", "U+0ED5",
     "U+0F25", "U+1045", "U+1095", "U+17E5", "U+1815", "U+194B", "U+19D5", "U+1A85",
     "U+1A95", "U+1B55", "U+1BB5", "U+1C45", "U+1C55", "U+A625", "U+A8D5", "U+A905",
     "U+A9D5", "U+A9F5", "U+AA55", "U+ABF5", "U+FF15", "U+104A5", "U+10D35", "U+1106B",
     "U+110F5", "U+1113B", "U+111D5", "U+112F5", "U+11455", "U+114D5", "U+11655",
     "U+116C5", "U+11735", "U+118E5", "U+11955", "U+11C55", "U+11D55", "U+11DA5",
     "U+16A65", "U+16AC5", "U+16B55", "U+1D7D3", "U+1D7DD", "U+1D7E7", "U+1D7F1",
     "U+1D7FB", "U+1E145", "U+1E2F5", "U+1E955", "U+1FBF5"},
    {
     "6", "U+0666", "U+06F6", "U+07C6", "U+096C", "U+09EC", "U+0A6C", "U+0AEC",
     "U+0B6C", "U+0BEC", "U+0C6C", "U+0CEC", "U+0D6C", "U+0DEC", "U+0E56", "U+0ED6",
     "U+0F26", "U+1046", "U+1096", "U+17E6", "U+1816", "U+194C", "U+19D6", "U+1A86",
     "U+1A96", "U+1B56", "U+1BB6", "U+1C46", "U+1C56", "U+A626", "U+A8D6", "U+A906",
     "U+A9D6", "U+A9F6", "U+AA56", "U+ABF6", "U+FF16", "U+104A6", "U+10D36", "U+1106C",
     "U+110F6", "U+1113C", "U+111D6", "U+112F6", "U+11456", "U+114D6", "U+11656",
     "U+116C6", "U+11736", "U+118E6", "U+11956", "U+11C56", "U+11D56", "U+11DA6",
     "U+16A66", "U+16AC6", "U+16B56", "U+1D7D4", "U+1D7DE", "U+1D7E8", "U+1D7F2",
     "U+1D7FC", "U+1E146", "U+1E2F6", "U+1E956", "U+1FBF6"},
    {
     "7", "U+0667", "U+06F7", "U+07C7", "U+096D", "U+09ED", "U+0A6D", "U+0AED",
     "U+0B6D", "U+0BED", "U+0C6D", "U+0CED", "U+0D6D", "U+0DED", "U+0E57", "U+0ED7",
     "U+0F27", "U+1047", "U+1097", "U+17E7", "U+1817", "U+194D", "U+19D7", "U+1A87",
     "U+1A97", "U+1B57", "U+1BB7", "U+1C47", "U+1C57", "U+A627", "U+A8D7", "U+A907",
     "U+A9D7", "U+A9F7", "U+AA57", "U+ABF7", "U+FF17", "U+104A7", "U+10D37", "U+1106D",
     "U+110F7", "U+1113D", "U+111D7", "U+112F7", "U+11457", "U+114D7", "U+11657",
     "U+116C7", "U+11737", "U+118E7", "U+11957", "U+11C57", "U+11D57", "U+11DA7",
     "U+16A67", "U+16AC7", "U+16B57", "U+1D7D5", "U+1D7DF", "U+1D7E9", "U+1D7F3",
     "U+1D7FD", "U+1E147", "U+1E2F7", "U+1E957", "U+1FBF7"},
    {
     "8", "U+0668", "U+06F8", "U+07C8", "U+096E", "U+09EE", "U+0A6E", "U+0AEE",
     "U+0B6E", "U+0BEE", "U+0C6E", "U+0CEE", "U+0D6E", "U+0DEE", "U+0E58", "U+0ED8",
     "U+0F28", "U+1048", "U+1098", "U+17E8", "U+1818", "U+194E", "U+19D8", "U+1A88",
     "U+1A98", "U+1B58", "U+1BB8", "U+1C48", "U+1C58", "U+A628", "U+A8D8", "U+A908",
     "U+A9D8", "U+A9F8", "U+AA58", "U+ABF8", "U+FF18", "U+104A8", "U+10D38", "U+1106E",
     "U+110F8", "U+1113E", "U+111D8", "U+112F8", "U+11458", "U+114D8", "U+11658",
     "U+116C8", "U+11738", "U+118E8", "U+11958", "U+11C58", "U+11D58", "U+11DA8",
     "U+16A68", "U+16AC8", "U+16B58", "U+1D7D6", "U+1D7E0", "U+1D7EA", "U+1D7F4",
     "U+1D7FE", "U+1E148", "U+1E2F8", "U+1E958", "U+1FBF8"},
    {
     "9", "U+0669", "U+06F9", "U+07C9", "U+096F", "U+09EF", "U+0A6F", "U+0AEF",
     "U+0B6F", "U+0BEF", "U+0C6F", "U+0CEF", "U+0D6F", "U+0DEF", "U+0E59", "U+0ED9",
     "U+0F29", "U+1049", "U+1099", "U+17E9", "U+1819", "U+194F", "U+19D9", "U+1A89",
     "U+1A99", "U+1B59", "U+1BB9", "U+1C49", "U+1C59", "U+A629", "U+A8D9", "U+A909",
     "U+A9D9", "U+A9F9", "U+AA59", "U+ABF9", "U+FF19", "U+104A9", "U+10D39", "U+1106F",
     "U+110F9", "U+1113F", "U+111D9", "U+112F9", "U+11459", "U+114D9", "U+11659",
     "U+116C9", "U+11739", "U+118E9", "U+11959", "U+11C59", "U+11D59", "U+11DA9",
     "U+16A69", "U+16AC9", "U+16B59", "U+1D7D7", "U+1D7E1", "U+1D7EB", "U+1D7F5",
     "U+1D7FF", "U+1E149", "U+1E2F9", "U+1E959", "U+1FBF9"}>>

\* int() of a one-character string that it converts
int(c) == (CHOOSE i \in DOMAIN Digit : c \in Digit[i]) - 1

\* int() raises ValueError for a character that is no decimal digit
int_raises(c) == \A i \in DOMAIN Digit : c \notin Digit[i]

\* Maze.__init__ without reversing the list of rows
Maze_init_unreversed(width, height, data) ==
    [width |-> width, height |-> height,
     cells |-> [i \in 1..height |-> [j \in 1..width |-> int(data[(i - 1) * width + j])]]]

\* Maze.__init__ with a data string (a sequence of characters): rows of
\* width characters are cut from data in order, then the row list is reversed
Maze_init(width, height, data) ==
    LET row(y) == [j \in 1..width |-> int(data[y * width + j])]
        appended == [i \in 1..height |-> row(i - 1)]
    IN [width |-> width, height |-> height,
        cells |-> [i \in 1..height |-> appended[height + 1 - i]]]

\* Maze.__init__ without data: every cell is space
Maze_blank(width, height) ==
    [width |-> width, height |-> height,
     cells |-> [i \in 1..height |-> [j \in 1..width |-> Maze_space]]]

\* Maze(width, height, data) for ints width and height, and data None or
\* Some(string): what it raises, and the maze it makes.  The length of data
\* is compared with width * height, which two negative sizes make positive;
\* only the characters of the rows cut for y in range(height) are converted,
\* none of them when height is not positive.
Maze_new(width, height, data) ==
    IF data = None
    THEN [raised |-> "none", maze |-> Some(Maze_blank(width, height))]
    ELSE IF Len(data[1]) # width * height
    THEN [raised |-> "ValueError", maze |-> None]
    ELSE IF \E y \in 0..(height - 1) : \E j \in 1..width : int_raises(data[1][y * width + j])
    THEN [raised |-> "ValueError", maze |-> None]
    ELSE [raised |-> "none", maze |-> Some(Maze_init(width, height, data[1]))]

\* Maze.__getitem__
Maze_getitem(self, index) ==
    IF ~(0 <= index.x /\ index.x < self.width) \/ ~(0 <= index.y /\ index.y < self.height)
    THEN Maze_wall
    ELSE self.cells[index.y + 1][index.x + 1]

\* the tests of Maze.__setitem__ passed, and the cell is assigned
Stored(self, index, value) ==
    [raised |-> "none",
     maze |-> [self EXCEPT !.cells[index.y + 1][index.x + 1] = value]]

\* Maze.__setitem__ with the bounds test left out for the row above the top
\* one, where the top row is assigned instead
Maze_setitem_clamps(self, index, value) ==
    IF value \notin {Maze_wall, Maze_space}
    THEN [raised |-> "ValueError", maze |-> self]
    ELSE IF (0 <= index.x /\ index.x < self.width) /\ index.y = self.height /\ self.height > 0
    THEN Stored(self, Position(index.x, self.height - 1), value)
    ELSE IF ~(0 <= index.x /\ index.x < self.width) \/ ~(0 <= index.y /\ index.y < self.height)
    THEN [raised |-> "IndexError", maze |-> self]
    ELSE Stored(self, index, value)

\* Maze.__setitem__: what it raises, and the maze it leaves
Maze_setitem(self, index, value) ==
    IF value \notin {Maze_wall, Maze_space}
    THEN [raised |-> "ValueError", maze |-> self]
    ELSE IF ~(0 <= index.x /\ index.x < self.width) \/ ~(0 <= index.y /\ index.y < self.height)
    THEN [raised |-> "IndexError", maze |-> self]
    ELSE Stored(self, index, value)

\* Obstruction: the four booleans, by direction
Obstruction(up, left, down, right) ==
    [m \in {UP, LEFT, DOWN, RIGHT} |->
        CASE m = UP -> up [] m = LEFT -> left [] m = DOWN -> down [] m = RIGHT -> right]

\* bool() of a cell value
bool(v) == v # 0

\* Maze.obstruction
Maze_obstruction(self, pos) ==
    Obstruction(bool(Maze_getitem(self, Position_add(pos, STEP[UP]))),
                bool(Maze_getitem(self, Position_add(pos, STEP[LEFT]))),
                bool(Maze_getitem(self, Position_add(pos, STEP[DOWN]))),
                bool(Maze_getitem(self, Position_add(pos, STEP[RIGHT]))))

\* Maze.__getstate__: the tuple holds the list of rows itself, not a copy
Maze_getstate(self) == <<self.width, self.height, self.cells>>

\* Maze.__setstate__: the three attributes are assigned from state as they
\* come, without any test
Maze_setstate(self, state) ==
    [self EXCEPT !.width = state[1], !.height = state[2], !.cells = state[3]]

-----------------------------------------------------------------------------
(* Game *)

not_started == "not started"
in_play == "in play"
goodies_win == "goodies win"
baddy_wins == "baddy wins"
draw == "draw"

goody0 == "goody0"
goody1 == "goody1"
baddy == "baddy"

\* Game.players with the baddy put first
players_baddy_first == <<"baddy", "goody0", "goody1">>

\* Game.players
players == <<goody0, goody1, baddy>>

Players == {goody0, goody1, baddy}

\* isinstance(player, Goody), isinstance(player, Baddy)
IsGoody(player) == player \in {goody0, goody1}

IsBaddy(player) == player = baddy

\* The cells random.randint can draw in _place_players
Extent(m) == {Position(x, y) : x \in 0..(m.width - 1), y \in 0..(m.height - 1)}

\* Game._place_players: the position tables it can produce.  Each player gets
\* a drawn cell that is space and not taken by a player placed before it.
Placements(m) ==
    {p \in [Players -> Extent(m)] :
        /\ \A q \in Players : Maze_getitem(m, p[q]) = Maze_space
        /\ p[goody1] # p[goody0]
        /\ p[baddy] # p[goody0]
        /\ p[baddy] # p[goody1]}

\* _ping_response_for_player with the subtraction turned round
ping_response_for_player_reversed(pos, player) ==
    [other_player \in Players \ {player} |-> Position_sub(pos[player], pos[other_player])]

\* Game._ping_response_for_player
ping_response_for_player(pos, player) ==
    [other_player \in Players \ {player} |-> Position_sub(pos[other_player], pos[player])]

-----------------------------------------------------------------------------
(* Game.do_round, piece by piece *)

\* returns_at_once with a draw left out of the statuses that end the game
returns_at_once_not_draw(s) == s \in {goodies_win, baddy_wins}

\* returns_at_once with only a draw ending the game
returns_at_once_only_draw(s) == s = draw

\* lines 358-361: a status other than not_started and in_play is returned at once
returns_at_once(s) == s # not_started /\ s # in_play

\* lines 358-359: not_started becomes in_play
started(s) == IF s = not_started THEN in_play ELSE s

\* is_draw testing for a counter beyond the maximum
is_draw_beyond(r, m) == r > m

\* is_draw testing the counter before its increment
is_draw_late(r, m) == r - 1 = m

\* line 364: the draw test on the incremented round counter
is_draw(r, m) == r = m

\* lines 368-373: the ping responses handed to the players in this round
ping_responses(flag, pos) ==
    IF flag
    THEN [player \in Players |-> Some(ping_response_for_player(pos, player))]
    ELSE [player \in Players |-> None]

\* What a take_turn returns is an object do_round knows nothing about.  The
\* loop body puts six questions to it, in this order and each only when the
\* answers before it lead there, and the object is modelled by what it is
\* and by its answers:
\*   move     the Move singleton the object is, or "other"
\*   stay     action == STAY (line 380)
\*   moving   action in (UP, DOWN, LEFT, RIGHT) (line 381)
\*   item     obstruction[action] (line 381): the direction whose entry the
\*            dict of the Obstruction gives for the object; ValueError for an
\*            object that is no instance of Move (line 133-135); KeyError
\*            and TypeError of the dict lookup for one that is
\*   ping     action == PING (line 382)
\*   pinging  action == PING (line 385)
\*   step     STEP[action] (line 388): the key of STEP the dict finds for the
\*            object, or KeyError, or TypeError for an object without a hash
\* An answer to == and to in is "True", "False" or the exception that the
\* __eq__ of the object raises; a lookup may raise what its __hash__ or
\* __eq__ raises.  The answers need not agree with each other: __eq__ may
\* answer differently each time it is called.

\* the exceptions the methods of a returned object raise, one standing for all
Raisable == {"ArithmeticError"}

\* the answers to a comparison
Answer == {"True", "False"} \cup Raisable

\* a Move singleton as a returned object: it equals itself only, and is
\* found by a dict under its own key only
Object(m) ==
    [move |-> m,
     stay |-> IF m = STAY THEN "True" ELSE "False",
     moving |-> IF m \in {UP, DOWN, LEFT, RIGHT} THEN "True" ELSE "False",
     item |-> IF m \in {UP, DOWN, LEFT, RIGHT} THEN m ELSE "KeyError",
     ping |-> IF m = PING THEN "True" ELSE "False",
     pinging |-> IF m = PING THEN "True" ELSE "False",
     step |-> IF m \in DOMAIN STEP THEN m ELSE "KeyError"]

\* a hashable object that equals itself only: None, 'up', Move('up'), object()
INVALID ==
    [move |-> "other", stay |-> "False", moving |-> "False", item |-> "ValueError",
     ping |-> "False", pinging |-> "False", step |-> "KeyError"]

\* an object whose == answers True to everything: unittest.mock.ANY
ANY == [INVALID EXCEPT !.stay = "True"]

\* an object that equals itself only and has no hash: []
UNHASHABLE == [INVALID EXCEPT !.step = "TypeError"]

\* the answers of o that no run of the loop body asks for, whatever the
\* player and the obstruction, are those of INVALID
Asked(o) ==
    /\ o.stay # "False" => o = [INVALID EXCEPT !.stay = o.stay]
    /\ o.moving # "True" => o.item = INVALID.item
    /\ (o.moving \in Raisable \/ (o.moving = "True" /\ o.item \notin {UP, DOWN, LEFT, RIGHT}))
          => (o.ping = INVALID.ping /\ o.pinging = INVALID.pinging /\ o.step = INVALID.step)
    /\ o.ping \in Raisable => (o.pinging = INVALID.pinging /\ o.step = INVALID.step)
    /\ o.pinging # "False" => o.step = INVALID.step

\* the objects that are no Move, one for each way the questions are answered
Others ==
    {o \in [move : {"other"}, stay : Answer, moving : Answer,
            item : {UP, DOWN, LEFT, RIGHT, "ValueError", "KeyError", "TypeError"} \cup Raisable,
            ping : Answer, pinging : Answer,
            step : DOMAIN STEP \cup {"KeyError", "TypeError"} \cup Raisable] : Asked(o)}

\* the values a take_turn may return
Returned == {Object(m) : m \in Moves} \cup Others

\* the exceptions a take_turn raises instead of returning: IndexError of
\* random.choice (baddies.py:23), and any other
TurnRaises == {"IndexError"} \cup Raisable

\* at most MaxOthers take_turn calls of a game do other than return a Move
MaxOthers == 1

\* no_action with a PING of any player resulting in no action
no_action_ping_dropped(action, obstruction, player) ==
    IF action.stay # "False" THEN action.stay
    ELSE IF action.moving \notin {"True", "False"} THEN action.moving
    ELSE IF action.moving = "True" /\ action.item \notin DOMAIN obstruction THEN action.item
    ELSE IF action.moving = "True" /\ obstruction[action.item] THEN "True"
    ELSE IF action.ping \notin {"True", "False"} THEN action.ping
    ELSE IF action.ping = "True" THEN "True"
    ELSE "False"

\* no_action with the Baddy's PING left to be handled as a PING
no_action_baddy_pings(action, obstruction, player) ==
    IF action.stay # "False" THEN action.stay
    ELSE IF action.moving \notin {"True", "False"} THEN action.moving
    ELSE IF action.moving = "True" /\ action.item \notin DOMAIN obstruction THEN action.item
    ELSE IF action.moving = "True" /\ obstruction[action.item] THEN "True"
    ELSE "False"

\* lines 380-382: the test for the cases that result in no action, "True" or
\* "False", or the exception that leaves it.  The three cases are tested from
\* left to right up to the first that holds; obstruction[action] is read
\* only for an action found in (UP, DOWN, LEFT, RIGHT), and action == PING is
\* asked before the player is looked at.
no_action(action, obstruction, player) ==
    IF action.stay # "False" THEN action.stay
    ELSE IF action.moving \notin {"True", "False"} THEN action.moving
    ELSE IF action.moving = "True" /\ action.item \notin DOMAIN obstruction THEN action.item
    ELSE IF action.moving = "True" /\ obstruction[action.item] THEN "True"
    ELSE IF action.ping \notin {"True", "False"} THEN action.ping
    ELSE IF action.ping = "True" /\ IsBaddy(player) THEN "True"
    ELSE "False"

\* game_over testing goody0 against the baddy whichever goody has moved
game_over_goody0_only(player, pos) ==
    IF IsGoody(player)
    THEN IF pos[goody0] = pos[goody1] THEN Some(goodies_win)
         ELSE IF pos[goody0] = pos[baddy] THEN Some(baddy_wins)
         ELSE None
    ELSE IF pos[baddy] \in {pos[goody0], pos[goody1]} THEN Some(baddy_wins)
         ELSE None

\* game_over with the baddy catching goody0 only
game_over_baddy_misses_goody1(player, pos) ==
    IF IsGoody(player)
    THEN IF pos[goody0] = pos[goody1] THEN Some(goodies_win)
         ELSE IF pos[player] = pos[baddy] THEN Some(baddy_wins)
         ELSE None
    ELSE IF pos[baddy] = pos[goody0] THEN Some(baddy_wins)
         ELSE None

\* game_over with the two results the wrong way round
game_over_results_swapped(player, pos) ==
    IF IsGoody(player)
    THEN IF pos[goody0] = pos[goody1] THEN Some(baddy_wins)
         ELSE IF pos[player] = pos[baddy] THEN Some(goodies_win)
         ELSE None
    ELSE IF pos[baddy] \in {pos[goody0], pos[goody1]} THEN Some(baddy_wins)
         ELSE None

\* lines 390-404: the check for game over after player has acted, on the
\* position table pos: None when the loop goes on, else the status set before break
game_over(player, pos) ==
    IF IsGoody(player)
    THEN IF pos[goody0] = pos[goody1] THEN Some(goodies_win)
         ELSE IF pos[player] = pos[baddy] THEN Some(baddy_wins)
         ELSE None
    ELSE IF pos[baddy] \in {pos[goody0], pos[goody1]} THEN Some(baddy_wins)
         ELSE None

\* line 388: position[player] += STEP[action], key being the key of STEP
\* found for action
stepped(pos, player, key) ==
    [pos EXCEPT ![player] = Position_add(pos[player], STEP[key])]

NoResponses == [player \in Players |-> None]

\* do_round returns the status s (lines 361, 366, 406)
Return(s) ==
    /\ result' = s
    /\ pc' = IF playing THEN "play_check" ELSE "idle"
    /\ idx' = 1
    /\ ping_response' = NoResponses
    /\ UNCHANGED <<playing, play_ret>>

\* do_round raises: the exception leaves do_round, and play when it is the caller
Raise(e) ==
    /\ result' = e
    /\ pc' = "idle"
    /\ idx' = 1
    /\ ping_response' = NoResponses
    /\ playing' = FALSE
    /\ UNCHANGED play_ret

\* the for loop goes to the next player, or ends and do_round returns (line 406)
Continue(s) ==
    IF idx < Len(players)
    THEN /\ idx' = idx + 1
         /\ UNCHANGED <<pc, ping_response, playing, result, play_ret>>
    ELSE Return(s)

\* Break with the status set but the loop going on to the next player
Break_goes_on(s) == Continue(s)

\* break (lines 395, 399, 404): the for loop is left and do_round returns s (line 406)
Break(s) == Return(s)

\* Game.do_round up to the for loop (lines 353-373), called from outside or by play
do_round ==
    /\ pc \in {"idle", "play"}
    /\ calls < MaxCalls
    /\ calls' = calls + 1
    /\ called' = << >>
    /\ start' = position
    /\ passed' = << >>
    /\ UNCHANGED <<maze, position, max_rounds, tpw, others, tiled, taken, attempts, query>>
    /\ IF returns_at_once(status)
       THEN /\ Return(status)
            /\ UNCHANGED <<status, round, ping, pinged>>
       ELSE /\ round' = round + 1
            /\ IF is_draw(round + 1, max_rounds)
               THEN /\ status' = draw
                    /\ Return(draw)
                    /\ UNCHANGED <<ping, pinged>>
               ELSE /\ status' = started(status)
                    /\ ping_response' = ping_responses(ping, position)
                    /\ ping' = FALSE
                    /\ pinged' = FALSE
                    /\ pc' = "turn"
                    /\ idx' = 1
                    /\ result' = "none"
                    /\ UNCHANGED <<playing, play_ret>>

\* One pass of the for loop of do_round (lines 375-406) once take_turn of
\* the player at idx has returned action: the move is handled
handled(action) ==
    /\ pc = "turn"
    /\ action.move = "other" => others < MaxOthers
    /\ others' = IF action.move = "other" THEN others + 1 ELSE others
    /\ LET player == players[idx]
           obstruction == Maze_obstruction(maze, position[player])
           none == no_action(action, obstruction, player)
       IN /\ called' = Append(called, player)
          /\ passed' = Append(passed, ping_response[player])
          /\ UNCHANGED <<maze, round, max_rounds, tiled, calls, start, taken, attempts, query>>
          /\ IF none = "True"
             THEN /\ UNCHANGED <<position, ping, status, pinged>>
                  /\ Continue(status)
             ELSE IF none # "False"
             THEN /\ UNCHANGED <<position, ping, status, pinged>>
                  /\ Raise(none)
             ELSE IF action.pinging \notin {"True", "False"}
             THEN /\ UNCHANGED <<position, ping, status, pinged>>
                  /\ Raise(action.pinging)
             ELSE IF action.pinging = "False" /\ action.step \notin DOMAIN STEP
             THEN /\ UNCHANGED <<position, ping, status, pinged>>
                  /\ Raise(action.step)
             ELSE LET pinging == action.pinging = "True"
                      pos == IF pinging THEN position ELSE stepped(position, player, action.step)
                      over == game_over(player, pos)
                  IN /\ position' = pos
                     /\ ping' = IF pinging THEN TRUE ELSE ping
                     /\ pinged' = IF pinging /\ action.move = PING /\ IsGoody(player)
                                  THEN TRUE ELSE pinged
                     /\ IF over # None
                        THEN /\ status' = over[1]
                             /\ Break(over[1])
                        ELSE /\ UNCHANGED status
                             /\ Continue(status)

\* One pass of the for loop of do_round (lines 375-406): the player at idx
\* is asked for its move, take_turn returns action, and the move is handled
take_turn(action) ==
    /\ handled(action)
    /\ UNCHANGED tpw

\* The pass of the for loop in which take_turn of the player at idx raises e
\* (line 377): the exception leaves do_round
take_turn_raises(e) ==
    /\ pc = "turn"
    /\ others < MaxOthers
    /\ others' = others + 1
    /\ called' = Append(called, players[idx])
    /\ passed' = Append(passed, ping_response[players[idx]])
    /\ Raise(e)
    /\ UNCHANGED <<maze, position, round, max_rounds, tpw, tiled, ping, status, calls,
                   start, pinged, taken, attempts, query>>

\* Game.play is called (line 408): it enters its loop
play ==
    /\ pc = "idle"
    /\ pc' = "play"
    /\ playing' = TRUE
    /\ play_ret' = None
    /\ UNCHANGED <<maze, position, round, max_rounds, tpw, others, tiled, ping, status, idx, ping_response,
                   result, calls, called, start, passed, pinged, taken, attempts, query>>

\* Game.play after do_round returned (lines 414-417): the hook, then the test of the result
play_check ==
    /\ pc = "play_check"
    /\ IF result # in_play
       THEN /\ play_ret' = Some([result |-> result, round |-> round])
            /\ playing' = FALSE
            /\ pc' = "idle"
       ELSE /\ pc' = "play"
            /\ UNCHANGED <<playing, play_ret>>
    /\ UNCHANGED <<maze, position, round, max_rounds, tpw, others, tiled, ping, status, idx, ping_response,
                   result, calls, called, start, passed, pinged, taken, attempts, query>>

-----------------------------------------------------------------------------
(* The specification *)

\* The mazes games are played on: mazes with a wall in them, one with two
\* cells more than there are players and one with as many
GameMazes ==
    { Maze_init(3, 2, <<"0", "1", "0",  "0", "0", "0">>),
      Maze_init(2, 2, <<"0", "1",  "0", "0">>) }

\* Game.__init__ (lines 311-329) on a maze built by Maze.__init__
Init ==
    /\ maze \in GameMazes
    /\ position \in Placements(maze)
    /\ round = 0
    /\ max_rounds \in 0..MaxMaxRounds
    /\ ping = FALSE
    /\ status = not_started
    /\ pc = "idle"
    /\ idx = 1
    /\ ping_response = NoResponses
    /\ playing = FALSE
    /\ result = "none"
    /\ play_ret = None
    /\ calls = 0
    /\ called = << >>
    /\ start = position
    /\ passed = << >>
    /\ pinged = FALSE
    /\ taken = << >>
    /\ attempts = 0
    /\ tiled = None
    /\ tpw = None
    /\ others = 0
    /\ query = None

Next ==
    \/ do_round
    \/ \E action \in Returned : take_turn(action)
    \/ \E e \in TurnRaises : take_turn_raises(e)
    \/ play
    \/ play_check

Spec == Init /\ [][Next]_vars

TypeOK ==
    /\ \A player \in Players :
          \E cell \in Extent(maze) :
             Position_l1_norm(Position_sub(position[player], cell)) <= others
    /\ others \in 0..MaxOthers
    /\ round \in 0..MaxCalls
    /\ status \in {not_started, in_play, goodies_win, baddy_wins, draw}
    /\ pc \in {"idle", "play", "turn", "play_check"}
    /\ idx \in 1..3
    /\ ping \in BOOLEAN
    /\ playing \in BOOLEAN

-----------------------------------------------------------------------------
(* Game.__init__ with _place_players, draw by draw *)

\* line 334
max_attempts == 1000

\* line 311: the default of the max_rounds argument
default_max_rounds == 10000

\* acceptable with the taken positions left untested
acceptable_ignores_taken(new_position, tk, m) ==
    Maze_getitem(m, new_position) = Maze_space

\* acceptable with the cell of the maze left untested
acceptable_ignores_wall(new_position, tk, m) ==
    ~(\E i \in 1..Len(tk) : tk[i] = new_position)

\* line 338: the test a drawn position has to pass
acceptable(new_position, tk, m) ==
    /\ ~(\E i \in 1..Len(tk) : tk[i] = new_position)
    /\ Maze_getitem(m, new_position) = Maze_space

\* the ValueError of _place_players, or of random.randint, leaves Game.__init__:
\* no Game is made
PlaceRaise ==
    /\ pc' = "failed"
    /\ result' = "ValueError"
    /\ UNCHANGED <<maze, position, round, max_rounds, tpw, others, tiled, ping, status, idx, ping_response,
                   playing, play_ret, calls, called, start, passed, pinged,
                   taken, attempts, query>>

\* One pass of the inner loop of _place_players (lines 336-345) for the
\* player at idx, random.randint drawing x and y; after the last player is
\* placed Game.__init__ goes on to its end (lines 326-329)
place_draw(x, y) ==
    /\ pc = "place"
    /\ LET player == players[idx]
           new_position == Position(x, y)
       IN IF acceptable(new_position, taken, maze)
          THEN /\ position' = (player :> new_position) @@ position
               /\ attempts' = 0
               /\ IF idx < Len(players)
                  THEN /\ taken' = Append(taken, new_position)
                       /\ idx' = idx + 1
                       /\ UNCHANGED <<pc, round, ping, status, start>>
                  ELSE /\ taken' = << >>
                       /\ idx' = 1
                       /\ round' = Some(0)
                       /\ ping' = Some(FALSE)
                       /\ status' = Some(not_started)
                       /\ start' = position'
                       /\ pc' = "idle"
               /\ UNCHANGED <<maze, max_rounds, tpw, others, tiled, ping_response, playing, result, play_ret,
                              calls, called, passed, pinged, query>>
          ELSE IF attempts + 1 < max_attempts
          THEN /\ attempts' = attempts + 1
               /\ UNCHANGED <<maze, position, round, max_rounds, tpw, others, tiled, ping, status, pc, idx,
                              ping_response, playing, result, play_ret, calls, called,
                              start, passed, pinged, taken, query>>
          ELSE PlaceRaise

\* line 337 on a maze without extent: random.randint raises ValueError for an empty range
place_empty_range ==
    /\ pc = "place"
    /\ maze.width - 1 < 0 \/ maze.height - 1 < 0
    /\ PlaceRaise

\* The mazes players are placed on: three open cells, no open cell, two open
\* cells, and no cell at all
PlaceMazes ==
    { Maze_init(2, 2, <<"0", "1",  "0", "0">>),
      Maze_init(2, 2, <<"1", "1",  "1", "1">>),
      Maze_init(2, 1, <<"0", "0">>),
      Maze_init(0, 1, << >>) }

\* Game.__init__ up to the call of _place_players (lines 311-324).  While the
\* Game is being made its attributes round, ping and status are None as long
\* as they are not assigned, and Some(value) once lines 326-329 assigned them.
InitPlace ==
    /\ maze \in PlaceMazes
    /\ position = << >>
    /\ round = None
    /\ max_rounds = default_max_rounds
    /\ ping = None
    /\ status = None
    /\ pc = "place"
    /\ idx = 1
    /\ ping_response = NoResponses
    /\ playing = FALSE
    /\ result = "none"
    /\ play_ret = None
    /\ calls = 0
    /\ called = << >>
    /\ start = << >>
    /\ passed = << >>
    /\ pinged = FALSE
    /\ taken = << >>
    /\ attempts = 0
    /\ tiled = None
    /\ tpw = None
    /\ others = 0
    /\ query = None

NextPlace ==
    \/ \E x \in 0..(maze.width - 1) : \E y \in 0..(maze.height - 1) : place_draw(x, y)
    \/ place_empty_range

SpecPlace == InitPlace /\ [][NextPlace]_vars

\* the loops of _place_players run on: every draw returns
SpecPlaceFair == SpecPlace /\ WF_vars(NextPlace)

-----------------------------------------------------------------------------
(* Reading a Maze: the cells and the obstructions, queried from outside *)

\* how far outside the extent of the maze the queried positions go
Margin == 1

\* the positions that are queried
Queried(m) ==
    {Position(x, y) : x \in (0 - Margin)..(m.width - 1 + Margin),
                      y \in (0 - Margin)..(m.height - 1 + Margin)}

\* maze[index]
getitem(index) ==
    /\ pc = "maze"
    /\ query' = Some([op |-> "getitem", index |-> index, value |-> Maze_getitem(maze, index)])
    /\ UNCHANGED <<maze, position, round, max_rounds, tpw, others, tiled, ping, status, pc, idx, ping_response,
                   playing, result, play_ret, calls, called, start, passed, pinged, taken,
                   attempts>>

\* maze.obstruction(pos)
obstruction(pos) ==
    /\ pc = "maze"
    /\ query' = Some([op |-> "obstruction", index |-> pos, value |-> Maze_obstruction(maze, pos)])
    /\ UNCHANGED <<maze, position, round, max_rounds, tpw, others, tiled, ping, status, pc, idx, ping_response,
                   playing, result, play_ret, calls, called, start, passed, pinged, taken,
                   attempts>>

\* the values handed to maze[index] = value: the two cell values, and one
\* that is neither
SetValues == {Maze_space, Maze_wall, 2}

\* maze[index] = value
setitem(index, value) ==
    /\ pc = "maze"
    /\ maze' = Maze_setitem(maze, index, value).maze
    /\ query' = Some([op |-> "setitem", index |-> index, value |-> value,
                      raised |-> Maze_setitem(maze, index, value).raised])
    /\ UNCHANGED <<position, round, max_rounds, tpw, others, tiled, ping, status, pc, idx, ping_response,
                   playing, result, play_ret, calls, called, start, passed, pinged, taken,
                   attempts>>

\* maze.__getstate__()
getstate ==
    /\ pc = "maze"
    /\ query' = Some([op |-> "getstate", value |-> Maze_getstate(maze)])
    /\ UNCHANGED <<maze, position, round, max_rounds, tpw, others, tiled, ping, status, pc, idx, ping_response,
                   playing, result, play_ret, calls, called, start, passed, pinged, taken,
                   attempts>>

\* maze.__setstate__(state)
setstate(state) ==
    /\ pc = "maze"
    /\ maze' = Maze_setstate(maze, state)
    /\ query' = Some([op |-> "setstate", state |-> state])
    /\ UNCHANGED <<position, round, max_rounds, tpw, others, tiled, ping, status, pc, idx, ping_response,
                   playing, result, play_ret, calls, called, start, passed, pinged, taken,
                   attempts>>

\* the mazes that are read: Maze(width, height, data) for data strings of
\* width * height characters that int() accepts
ReadMazes ==
    { Maze_init(2, 2, <<"0", "1",  "0", "0">>),
      Maze_init(3, 2, <<"0", "1", "0",  "0", "0", "0">>),
      Maze_init(1, 1, <<"1">>),
      Maze_init(2, 1, <<"2", "0">>),
      Maze_init(0, 1, << >>) }

\* the states handed to __setstate__: what __getstate__ returned for a Maze,
\* as pickle and copy hand them over
States == {Maze_getstate(m) : m \in ReadMazes}

\* a maze built by Maze.__init__, before any query
InitMaze ==
    /\ maze \in ReadMazes
    /\ position = << >>
    /\ round = None
    /\ max_rounds = default_max_rounds
    /\ ping = None
    /\ status = None
    /\ pc = "maze"
    /\ idx = 1
    /\ ping_response = NoResponses
    /\ playing = FALSE
    /\ result = "none"
    /\ play_ret = None
    /\ calls = 0
    /\ called = << >>
    /\ start = << >>
    /\ passed = << >>
    /\ pinged = FALSE
    /\ taken = << >>
    /\ attempts = 0
    /\ tiled = None
    /\ tpw = None
    /\ others = 0
    /\ query = None

NextMaze ==
    \/ \E index \in Queried(maze) : getitem(index)
    \/ \E pos \in Queried(maze) : obstruction(pos)
    \/ \E index \in Queried(maze), value \in SetValues : setitem(index, value)
    \/ getstate
    \/ \E state \in States : setstate(state)

SpecMaze == InitMaze /\ [][NextMaze]_vars

-----------------------------------------------------------------------------
(* Making a Maze *)

\* the widths, heights and data strings Maze() is called with
MaxWidth == 2
MaxHeight == 2
MaxData == 4

\* the characters of the data strings: the two cell characters, a further
\* digit of ASCII, a decimal digit outside ASCII and a letter
Symbols == {"0", "1", "2", "U+0663", "a"}

Strings == UNION {[1..n -> Symbols] : n \in 0..MaxData}

\* Maze(width, height, data), the arguments being held in query; maze is
\* None until the Maze is made, and Some(maze) then
Maze_call ==
    /\ pc = "new"
    /\ LET made == Maze_new(query[1].width, query[1].height, query[1].data)
       IN /\ maze' = made.maze
          /\ pc' = IF made.raised = "none" THEN "made" ELSE "failed"
          /\ result' = made.raised
    /\ UNCHANGED <<position, round, max_rounds, tpw, others, tiled, ping, status, idx, ping_response,
                   playing, play_ret, calls, called, start, passed, pinged, taken,
                   attempts, query>>

\* a made Maze is read: maze[index]
made_getitem(index) ==
    /\ pc = "made"
    /\ play_ret' = Some(Maze_getitem(maze[1], index))
    /\ UNCHANGED <<maze, position, round, max_rounds, tpw, others, tiled, ping, status, pc, idx, ping_response,
                   playing, result, calls, called, start, passed, pinged, taken,
                   attempts, query>>

\* before the call of Maze(width, height, data)
InitNew ==
    /\ maze = None
    /\ query \in {Some([op |-> "Maze", width |-> w, height |-> h, data |-> d]) :
                     w \in (-MaxWidth)..MaxWidth, h \in (-MaxHeight)..MaxHeight,
                     d \in {None} \cup {Some(str) : str \in Strings}}
    /\ position = << >>
    /\ round = None
    /\ max_rounds = default_max_rounds
    /\ ping = None
    /\ status = None
    /\ pc = "new"
    /\ idx = 1
    /\ ping_response = NoResponses
    /\ playing = FALSE
    /\ result = "none"
    /\ play_ret = None
    /\ calls = 0
    /\ called = << >>
    /\ start = << >>
    /\ passed = << >>
    /\ pinged = FALSE
    /\ taken = << >>
    /\ attempts = 0
    /\ tiled = None
    /\ tpw = None
    /\ others = 0

NextNew ==
    \/ Maze_call
    \/ pc = "made" /\ \E index \in Extent(maze[1]) : made_getitem(index)

SpecNew == InitNew /\ [][NextNew]_vars

-----------------------------------------------------------------------------
(* Multiplying and copying a Maze *)

\* The Maze that maze * (x_repeats, y_repeats) returns.  Its list of rows is
\* new_cells; ids names the list object that each row is, <<"new", i>> being
\* the list made by the i-th evaluation of self._cells[y] * x_repeats and
\* <<"self", y>> the list self._cells[y - 1] of the Maze multiplied.
Product(self, x_repeats, y_repeats, ids) ==
    [width |-> self.width * x_repeats,
     height |-> self.height * y_repeats,
     cells |-> [i \in 1..(self.height * y_repeats) |->
                  [j \in 1..(self.width * x_repeats) |->
                      self.cells[((i - 1) % self.height) + 1][((j - 1) % self.width) + 1]]],
     ids |-> ids]

\* Maze.__mul__ that appends the row of the Maze itself when x_repeats is 1
Maze_mul_shares_rows(self, x_repeats, y_repeats) ==
    Product(self, x_repeats, y_repeats,
            [i \in 1..(self.height * y_repeats) |->
                IF x_repeats = 1 THEN <<"self", ((i - 1) % self.height) + 1>> ELSE <<"new", i>>])

\* Maze.__mul__ for an (x_repeats, y_repeats) pair: list * int makes a new
\* list each time it is evaluated
Maze_mul(self, x_repeats, y_repeats) ==
    Product(self, x_repeats, y_repeats, [i \in 1..(self.height * y_repeats) |-> <<"new", i>>])

\* copy.copy(maze): a new Maze is made without __init__ and its __setstate__
\* is handed maze.__getstate__(), so that its rows are the list objects that
\* are the rows of maze
Maze_copy(self) ==
    LET made == Maze_setstate(self, Maze_getstate(self))
    IN [width |-> made.width, height |-> made.height, cells |-> made.cells,
        ids |-> [y \in 1..Len(made.cells) |-> <<"self", y>>]]

\* the assignment of line 253 to the row list named id, as it shows in a
\* list of rows whose list objects are ids
Assigned(cells, ids, id, x, value) ==
    [i \in 1..Len(cells) |-> IF ids[i] = id THEN [cells[i] EXCEPT ![x + 1] = value] ELSE cells[i]]

\* how often a Maze is repeated in each direction
MaxRepeat == 2

\* how many assignments are made to a product
MaxSets == 1

\* tiled = maze * (x_repeats, y_repeats)
mul(x_repeats, y_repeats) ==
    /\ pc = "maze"
    /\ tiled = None
    /\ tiled' = Some(Maze_mul(maze, x_repeats, y_repeats))
    /\ query' = Some([op |-> "mul", x_repeats |-> x_repeats, y_repeats |-> y_repeats])
    /\ UNCHANGED <<maze, position, round, max_rounds, tpw, others, ping, status, pc, idx, ping_response,
                   playing, result, play_ret, calls, called, start, passed, pinged, taken,
                   attempts>>

\* tiled = copy.copy(maze)
copy ==
    /\ pc = "maze"
    /\ tiled = None
    /\ tiled' = Some(Maze_copy(maze))
    /\ query' = Some([op |-> "copy"])
    /\ UNCHANGED <<maze, position, round, max_rounds, tpw, others, ping, status, pc, idx, ping_response,
                   playing, result, play_ret, calls, called, start, passed, pinged, taken,
                   attempts>>

\* the operation that made tiled, as query tells it
made_by == IF query[1].op = "tiled_setitem" THEN query[1].of ELSE query[1].op

\* tiled[index] = value: Maze.__setitem__ on the product or the copy
tiled_setitem(index, value) ==
    /\ pc = "maze"
    /\ tiled # None
    /\ calls < MaxSets
    /\ calls' = calls + 1
    /\ LET raised == Maze_setitem(tiled[1], index, value).raised
           id == tiled[1].ids[index.y + 1]
       IN /\ query' = Some([op |-> "tiled_setitem", of |-> made_by, index |-> index,
                            value |-> value, raised |-> raised])
          /\ IF raised = "none"
             THEN /\ tiled' = Some([tiled[1] EXCEPT
                                      !.cells = Assigned(tiled[1].cells, tiled[1].ids, id,
                                                         index.x, value)])
                  /\ maze' = [maze EXCEPT
                                !.cells = Assigned(maze.cells,
                                                   [y \in 1..maze.height |-> <<"self", y>>],
                                                   id, index.x, value)]
             ELSE UNCHANGED <<maze, tiled>>
    /\ UNCHANGED <<position, round, max_rounds, tpw, others, ping, status, pc, idx, ping_response,
                   playing, result, play_ret, called, start, passed, pinged, taken,
                   attempts>>

\* the Mazes that are multiplied
TileMazes ==
    { Maze_init(2, 1, <<"0", "1">>),
      Maze_init(1, 2, <<"1", "0">>),
      Maze_init(2, 2, <<"0", "1",  "0", "0">>) }

\* a Maze built by Maze.__init__, before it is multiplied
InitTile ==
    /\ maze \in TileMazes
    /\ position = << >>
    /\ round = None
    /\ max_rounds = default_max_rounds
    /\ ping = None
    /\ status = None
    /\ pc = "maze"
    /\ idx = 1
    /\ ping_response = NoResponses
    /\ playing = FALSE
    /\ result = "none"
    /\ play_ret = None
    /\ calls = 0
    /\ called = << >>
    /\ start = << >>
    /\ passed = << >>
    /\ pinged = FALSE
    /\ taken = << >>
    /\ attempts = 0
    /\ query = None
    /\ tiled = None
    /\ tpw = None
    /\ others = 0

NextTile ==
    \/ \E x_repeats \in 0..MaxRepeat, y_repeats \in 0..MaxRepeat : mul(x_repeats, y_repeats)
    \/ copy
    \/ /\ tiled # None
       /\ \E index \in Queried(tiled[1]), value \in SetValues : tiled_setitem(index, value)

SpecTile == InitTile /\ [][NextTile]_vars

-----------------------------------------------------------------------------
(* Arithmetic of Positions *)

\* the components of the Positions are in -MaxCoord .. MaxCoord
MaxCoord == 2

Coords == (0 - MaxCoord)..MaxCoord

\* (p + q) - q
add_sub ==
    /\ pc = "position"
    /\ query' = Some([query[1] EXCEPT
                        !.op = "add_sub",
                        !.value = Position_sub(Position_add(query[1].p, query[1].q), query[1].q)])
    /\ UNCHANGED <<maze, position, round, max_rounds, tpw, others, tiled, ping, status, pc, idx,
                   ping_response, playing, result, play_ret, calls, called, start, passed,
                   pinged, taken, attempts>>

\* -(-p)
neg_neg ==
    /\ pc = "position"
    /\ query' = Some([query[1] EXCEPT
                        !.op = "neg_neg",
                        !.value = Position_neg(Position_neg(query[1].p))])
    /\ UNCHANGED <<maze, position, round, max_rounds, tpw, others, tiled, ping, status, pc, idx,
                   ping_response, playing, result, play_ret, calls, called, start, passed,
                   pinged, taken, attempts>>

\* p + q, and q + p
add_both ==
    /\ pc = "position"
    /\ query' = Some([query[1] EXCEPT
                        !.op = "add",
                        !.value = Position_add(query[1].p, query[1].q),
                        !.swapped = Position_add(query[1].q, query[1].p)])
    /\ UNCHANGED <<maze, position, round, max_rounds, tpw, others, tiled, ping, status, pc, idx,
                   ping_response, playing, result, play_ret, calls, called, start, passed,
                   pinged, taken, attempts>>

\* two Positions p and q, made by Position.__init__
InitPosition ==
    /\ query \in {Some([op |-> "Position", p |-> Position(px, py), q |-> Position(qx, qy),
                        value |-> ZERO, swapped |-> ZERO]) :
                     px \in Coords, py \in Coords, qx \in Coords, qy \in Coords}
    /\ maze = Maze_blank(0, 0)
    /\ position = << >>
    /\ round = None
    /\ max_rounds = default_max_rounds
    /\ ping = None
    /\ status = None
    /\ pc = "position"
    /\ idx = 1
    /\ ping_response = NoResponses
    /\ playing = FALSE
    /\ result = "none"
    /\ play_ret = None
    /\ calls = 0
    /\ called = << >>
    /\ start = << >>
    /\ passed = << >>
    /\ pinged = FALSE
    /\ taken = << >>
    /\ attempts = 0
    /\ tiled = None
    /\ tpw = None
    /\ others = 0

NextPosition ==
    \/ add_sub
    \/ neg_neg
    \/ add_both

SpecPosition == InitPosition /\ [][NextPosition]_vars

-----------------------------------------------------------------------------
(* The example players: RandomGoody (goodies.py) and RandomBaddy (baddies.py) *)

\* [direction for direction in directions if not obstruction[direction]]
Unobstructed(directions, obstr) ==
    SelectSeq(directions, LAMBDA direction : ~obstr[direction])

\* random.choice(possibilities): what it raises, and the element it returns
choice(possibilities, i) ==
    IF Len(possibilities) = 0
    THEN [raised |-> "IndexError", value |-> None]
    ELSE [raised |-> "none", value |-> Some(possibilities[i])]

\* RandomGoody.take_turn, random.choice taking the i-th possibility
RandomGoody_take_turn(obstr, i) ==
    choice(Unobstructed(<<UP, DOWN, LEFT, RIGHT>>, obstr) \o <<PING>>, i)

\* RandomBaddy.take_turn, random.choice taking the i-th possibility
RandomBaddy_take_turn(obstr, i) ==
    choice(Unobstructed(<<UP, DOWN, LEFT, RIGHT>>, obstr), i)

\* the elements random.choice can take (one outcome when there is none)
Choices(possibilities) == IF Len(possibilities) = 0 THEN {1} ELSE 1..Len(possibilities)

\* a RandomGoody is asked for its move
goody_asked ==
    /\ pc = "agent"
    /\ \E i \in Choices(Unobstructed(<<UP, DOWN, LEFT, RIGHT>>, query[1].obstruction) \o <<PING>>) :
          query' = Some([query[1] EXCEPT
                           !.op = "RandomGoody.take_turn",
                           !.returned = RandomGoody_take_turn(query[1].obstruction, i)])
    /\ UNCHANGED <<maze, position, round, max_rounds, tpw, others, tiled, ping, status, pc, idx,
                   ping_response, playing, result, play_ret, calls, called, start, passed,
                   pinged, taken, attempts>>

\* a RandomBaddy is asked for its move
baddy_asked ==
    /\ pc = "agent"
    /\ \E i \in Choices(Unobstructed(<<UP, DOWN, LEFT, RIGHT>>, query[1].obstruction)) :
          query' = Some([query[1] EXCEPT
                           !.op = "RandomBaddy.take_turn",
                           !.returned = RandomBaddy_take_turn(query[1].obstruction, i)])
    /\ UNCHANGED <<maze, position, round, max_rounds, tpw, others, tiled, ping, status, pc, idx,
                   ping_response, playing, result, play_ret, calls, called, start, passed,
                   pinged, taken, attempts>>

\* the arguments of take_turn: any Obstruction, and a ping_response that is
\* None or a dict of offsets
InitAgents ==
    /\ query \in {Some([op |-> "none", obstruction |-> Obstruction(up, left, down, right),
                        ping_response |-> response,
                        returned |-> [raised |-> "none", value |-> None]]) :
                     up \in BOOLEAN, left \in BOOLEAN, down \in BOOLEAN, right \in BOOLEAN,
                     response \in {None, Some([other \in {goody1, baddy} |-> Position(1, 0)])}}
    /\ maze = Maze_blank(0, 0)
    /\ position = << >>
    /\ round = None
    /\ max_rounds = default_max_rounds
    /\ ping = None
    /\ status = None
    /\ pc = "agent"
    /\ idx = 1
    /\ ping_response = NoResponses
    /\ playing = FALSE
    /\ result = "none"
    /\ play_ret = None
    /\ calls = 0
    /\ called = << >>
    /\ start = << >>
    /\ passed = << >>
    /\ pinged = FALSE
    /\ taken = << >>
    /\ attempts = 0
    /\ tiled = None
    /\ tpw = None
    /\ others = 0

NextAgents ==
    \/ goody_asked
    \/ baddy_asked

SpecAgents == InitAgents /\ [][NextAgents]_vars

-----------------------------------------------------------------------------
(* A game with a TPWGoody (goodies.py) as goody0, a StaticGoody and a StaticBaddy *)

OPPOSITE == (UP :> DOWN) @@ (DOWN :> UP) @@ (LEFT :> RIGHT) @@ (RIGHT :> LEFT)

\* TPWGoody.__init__; known_walls and known_spaces are lists that are only
\* appended to and tested for membership, and are kept as sets
TPWGoody_init ==
    [turn |-> 1, position |-> Position(0, 0), known_walls |-> {}, known_spaces |-> {},
     is_stuck |-> FALSE, last_move |-> LEFT]

\* TPWGoody.take_turn up to the choice of the move (goodies.py:44-68): the
\* directions allowed, and the attributes as they are then
TPWGoody_scan(self, obstr) ==
    LET pos(direction) == Position_add(self.position, STEP[direction])
        Directions == {UP, DOWN, LEFT, RIGHT}
        wall(direction) == pos(direction) \in self.known_walls \/ obstr[direction]
        allowed == SelectSeq(<<UP, DOWN, LEFT, RIGHT>>, LAMBDA direction : ~wall(direction))
        adjacent_walls == 4 - Len(allowed)
        seen_walls == self.known_walls \cup {pos(direction) : direction \in {d \in Directions : obstr[d]}}
        seen_spaces == self.known_spaces \cup
                          {pos(direction) : direction \in {d \in Directions : ~wall(d)}}
        free == IF adjacent_walls <= 1 THEN FALSE ELSE self.is_stuck
        in_corner == ~(\E i \in 1..Len(allowed) : allowed[i] = DOWN)
                        /\ ~(\E i \in 1..Len(allowed) : allowed[i] = LEFT)
    IN [allowed |-> allowed,
        self |-> [self EXCEPT
                    !.known_walls = IF adjacent_walls = 3 THEN seen_walls \cup {self.position}
                                    ELSE seen_walls,
                    !.known_spaces = seen_spaces,
                    !.is_stuck = IF in_corner THEN TRUE ELSE free]]

\* TPWGoody.normal_choice, random.choice taking the i-th possibility
TPWGoody_normal_choice(allowed, i) ==
    choice(SelectSeq(<<UP, DOWN, DOWN, DOWN, DOWN, LEFT, LEFT, LEFT, LEFT, RIGHT>>,
                     LAMBDA direction : \E j \in 1..Len(allowed) : allowed[j] = direction), i)

\* TPWGoody.stuck_choice: with neither 1 nor 2 directions allowed it prints
\* "Should not reach this point" and calls exit(1)
TPWGoody_stuck_choice(allowed, last_move) ==
    IF Len(allowed) = 1
    THEN [raised |-> "none", value |-> Some(allowed[1])]
    ELSE IF Len(allowed) = 2
    THEN [raised |-> "none",
          value |-> Some(SelectSeq(allowed, LAMBDA direction : direction # OPPOSITE[last_move])[1])]
    ELSE [raised |-> "SystemExit", value |-> None]

\* the possibilities normal_choice chooses from
TPWGoody_choices(self, obstr) ==
    LET scan == TPWGoody_scan(self, obstr)
    IN IF scan.self.is_stuck THEN {1}
       ELSE Choices(SelectSeq(<<UP, DOWN, DOWN, DOWN, DOWN, LEFT, LEFT, LEFT, LEFT, RIGHT>>,
                       LAMBDA direction : \E j \in 1..Len(scan.allowed) : scan.allowed[j] = direction))

\* TPWGoody.take_turn: what it raises, the move it returns, and its
\* attributes afterwards
TPWGoody_take_turn(self, obstr, i) ==
    LET scan == TPWGoody_scan(self, obstr)
        move == IF scan.self.is_stuck
                THEN TPWGoody_stuck_choice(scan.allowed, self.last_move)
                ELSE TPWGoody_normal_choice(scan.allowed, i)
    IN [raised |-> move.raised,
        value |-> move.value,
        self |-> IF move.raised = "none"
                 THEN [scan.self EXCEPT
                         !.last_move = move.value[1],
                         !.position = Position_add(scan.self.position, STEP[move.value[1]])]
                 ELSE scan.self]

\* the pass of the for loop of do_round for goody0, the TPWGoody: its
\* take_turn is called and the move is handled, or take_turn exits
tpw_turn ==
    /\ pc = "turn"
    /\ players[idx] = goody0
    /\ LET obstr == Maze_obstruction(maze, position[goody0])
       IN \E i \in TPWGoody_choices(tpw[1], obstr) :
             LET turn == TPWGoody_take_turn(tpw[1], obstr, i)
             IN /\ tpw' = Some(turn.self)
                /\ IF turn.raised = "none"
                   THEN handled(Object(turn.value[1]))
                   ELSE /\ pc' = "exited"
                        /\ result' = turn.raised
                        /\ called' = Append(called, goody0)
                        /\ passed' = Append(passed, ping_response[goody0])
                        /\ UNCHANGED <<maze, position, round, max_rounds, ping, status, idx,
                                       ping_response, playing, play_ret, calls, start, pinged,
                                       taken, attempts, query, tiled, others>>

\* the pass of the for loop of do_round for the StaticGoody and the
\* StaticBaddy, whose take_turn returns STAY
static_turn ==
    /\ pc = "turn"
    /\ players[idx] # goody0
    /\ take_turn(Object(STAY))

\* the mazes of these games: with a cell that has walls on all sides, with a
\* dead end of two cells, and the mazes of the other games
TPWMazes ==
    { Maze_init(4, 1, <<"0", "1", "0", "0">>),
      Maze_init(5, 1, <<"0", "0", "1", "0", "0">>) } \cup GameMazes

\* Game.__init__ with a new TPWGoody as goody0
InitTPW ==
    /\ maze \in TPWMazes
    /\ position \in Placements(maze)
    /\ round = 0
    /\ max_rounds = default_max_rounds
    /\ ping = FALSE
    /\ status = not_started
    /\ pc = "idle"
    /\ idx = 1
    /\ ping_response = NoResponses
    /\ playing = FALSE
    /\ result = "none"
    /\ play_ret = None
    /\ calls = 0
    /\ called = << >>
    /\ start = position
    /\ passed = << >>
    /\ pinged = FALSE
    /\ taken = << >>
    /\ attempts = 0
    /\ query = None
    /\ tiled = None
    /\ tpw = Some(TPWGoody_init)
    /\ others = 0

NextTPW ==
    \/ do_round
    \/ tpw_turn
    \/ static_turn

SpecTPW == InitTPW /\ [][NextTPW]_vars

-----------------------------------------------------------------------------
(* The game of two goodies that walk towards each other on an open 3 x 3 maze *)

\* the other Goody
OtherGoody(player) == IF player = goody0 THEN goody1 ELSE goody0

\* a take_turn of a Goody that goes straight for the other Goody: the
\* direction returned brings the two one step nearer
Toward(player, action) ==
    /\ action \in {UP, DOWN, LEFT, RIGHT}
    /\ Position_l1_norm(Position_sub(Position_add(position[player], STEP[action]),
                                     position[OtherGoody(player)]))
          < Position_l1_norm(Position_sub(position[player], position[OtherGoody(player)]))

\* the turn of a Goody that goes straight for the other Goody
goody_turn_toward ==
    /\ pc = "turn"
    /\ IsGoody(players[idx])
    /\ \E action \in Moves : Toward(players[idx], action) /\ take_turn(Object(action))

\* the turn of the Baddy, whatever it returns or raises
baddy_turn ==
    /\ pc = "turn"
    /\ IsBaddy(players[idx])
    /\ \/ \E action \in Returned : take_turn(action)
       \/ \E e \in TurnRaises : take_turn_raises(e)

\* Game.__init__ on the open 3 x 3 maze, with the players placed at (0, 0),
\* (2, 2) and (1, 1)
InitScenario ==
    /\ maze = Maze_init(3, 3, <<"0", "0", "0",  "0", "0", "0",  "0", "0", "0">>)
    /\ position = (goody0 :> Position(0, 0)) @@ (goody1 :> Position(2, 2)) @@ (baddy :> Position(1, 1))
    /\ round = 0
    /\ max_rounds \in (0..MaxMaxRounds) \cup {default_max_rounds}
    /\ ping = FALSE
    /\ status = not_started
    /\ pc = "idle"
    /\ idx = 1
    /\ ping_response = NoResponses
    /\ playing = FALSE
    /\ result = "none"
    /\ play_ret = None
    /\ calls = 0
    /\ called = << >>
    /\ start = position
    /\ passed = << >>
    /\ pinged = FALSE
    /\ taken = << >>
    /\ attempts = 0
    /\ tiled = None
    /\ tpw = None
    /\ others = 0
    /\ query = None

NextScenario ==
    \/ do_round
    \/ goody_turn_toward
    \/ baddy_turn
    \/ play
    \/ play_check

SpecScenario == InitScenario /\ [][NextScenario]_vars

-----------------------------------------------------------------------------
(* Properties of do_round and play *)

Terminal == {goodies_win, baddy_wins, draw}

\* how far along not_started -> in_play -> terminal a status is
Rank(s) == IF s = not_started THEN 0 ELSE IF s = in_play THEN 1 ELSE 2

\* the step is a call of do_round
DoRoundCalled == pc \in {"idle", "play"} /\ calls' = calls + 1

\* C1: whatever the players do and however often do_round is called, the
\* status only moves forward along not_started -> in_play -> {goodies_win,
\* baddy_wins, draw}: a change of status is a change to a status further
\* along, so never back to not_started, never from a terminal status to
\* in_play, and never from one terminal status to another.
C1_StatusForward == [][status' # status => Rank(status) < Rank(status')]_vars

\* a win stood through a later call of do_round
C1_Witness == status = baddy_wins /\ calls > round /\ result = baddy_wins

\* C2: a call of do_round in a terminal status returns that status, calls no
\* player, and leaves the status, the round counter, the ping flag and every
\* position as they were.
C2_TerminalNoOp ==
    [][(DoRoundCalled /\ status \in Terminal) =>
          /\ result' = status
          /\ status' = status
          /\ round' = round
          /\ ping' = ping
          /\ position' = position
          /\ called' = << >>
          /\ pc' # "turn"]_vars

\* do_round was called twice after the goodies had won, with the ping flag set
C2_Witness ==
    /\ status = goodies_win
    /\ calls >= round + 2
    /\ ping
    /\ result = goodies_win
    /\ called = << >>

\* C3: with max_rounds >= 1, once do_round has been called max_rounds times
\* without a win or a loss, the status is draw and the round counter is
\* max_rounds, and they stay so over further calls, which return draw.
C3_DrawAtMaxRounds ==
    (max_rounds >= 1 /\ calls >= max_rounds /\ status \notin {goodies_win, baddy_wins}) =>
        /\ status = draw
        /\ round = max_rounds
        /\ result = draw

\* do_round was called again after the draw of a game of three rounds
C3_Witness == max_rounds = 3 /\ calls > max_rounds /\ status = draw /\ round = 3

\* C4: the call of do_round that increments the round counter to max_rounds
\* sets the status to draw and returns it without calling any player: the
\* positions and the ping flag are as before the call.  So no player has a
\* turn in a round numbered max_rounds.
C4_DrawRoundIsSilent ==
    /\ [][(DoRoundCalled /\ round' = round + 1 /\ round' = max_rounds) =>
             /\ status' = draw
             /\ result' = draw
             /\ called' = << >>
             /\ pc' # "turn"
             /\ position' = position
             /\ ping' = ping]_vars
    /\ [](pc = "turn" => round # max_rounds)

\* a draw was called while a ping was pending, after a round in which all three players had a turn
C4_Witness == status = draw /\ round = max_rounds /\ round >= 2 /\ ping /\ result = draw

\* C5: for every max_rounds the constructor accepts, the round counter never
\* exceeds max_rounds, a terminal status is reached by the max_rounds-th call
\* of do_round at the latest, and what play returns is that terminal status
\* with the round count.
C5_PlayIsBounded ==
    /\ round <= max_rounds
    /\ (calls >= 1 /\ calls >= max_rounds /\ pc # "turn") => status \in Terminal
    /\ play_ret # None =>
          /\ play_ret[1].result \in Terminal
          /\ play_ret[1].result = status
          /\ play_ret[1].round = round

\* the cell of the maze at an in-bounds position, read from the rows
Cell(pos) == maze.cells[pos.y + 1][pos.x + 1]

\* C6: in every state of a game each player's position is inside the maze,
\* 0 <= x < width and 0 <= y < height, and the cell there is space,
\* whatever the players return from take_turn.
C6_PositionsAreOpenCells ==
    \A player \in Players :
        /\ 0 <= position[player].x /\ position[player].x < maze.width
        /\ 0 <= position[player].y /\ position[player].y < maze.height
        /\ Cell(position[player]) = Maze_space

\* the step is a turn of player
TurnOf(player) == pc = "turn" /\ players[idx] = player

\* C7: when a goody's turn changes its position, the status after the turn
\* is goodies_win if the two goodies are now on the same cell, else
\* baddy_wins if the mover is now on the baddy's cell, else still in_play.
C7_GoodyMoveCheck ==
    [][\A player \in {goody0, goody1} :
          (TurnOf(player) /\ position'[player] # position[player]) =>
              status' = IF position'[goody0] = position'[goody1] THEN goodies_win
                        ELSE IF position'[player] = position'[baddy] THEN baddy_wins
                        ELSE in_play]_vars

\* goody1 has walked onto the baddy's cell
C7_Witness ==
    /\ status = baddy_wins
    /\ called = <<goody0, goody1>>
    /\ position[goody1] # start[goody1]
    /\ position[goody1] = position[baddy]
    /\ position[goody0] # position[baddy]

\* C8: when the baddy's turn changes its position, the status after the turn
\* is baddy_wins, returned by this call of do_round, if the baddy is now on
\* goody0's or goody1's cell, and is still in_play if it is on neither.
C8_BaddyMoveCheck ==
    [][(TurnOf(baddy) /\ position'[baddy] # position[baddy]) =>
          IF position'[baddy] = position'[goody0] \/ position'[baddy] = position'[goody1]
          THEN status' = baddy_wins /\ result' = baddy_wins /\ pc' # "turn"
          ELSE status' = in_play]_vars

\* the baddy has walked onto goody1's cell
C8_Witness ==
    /\ status = baddy_wins
    /\ called = <<goody0, goody1, baddy>>
    /\ position[baddy] # start[baddy]
    /\ position[baddy] = position[goody1]

\* C9: the turn on which a terminal status is set is the last turn of its
\* round: do_round returns that status from it, so no later player of the
\* round is asked and no position or ping flag changes after it; a turn is
\* never taken in a terminal status.
C9_StopsAtTerminal ==
    /\ [][(pc = "turn" /\ status' \in Terminal) =>
             /\ pc' # "turn"
             /\ result' = status'
             /\ called' = Append(called, players[idx])]_vars
    /\ [](status \in Terminal => pc # "turn")
    /\ [][(status \in Terminal) =>
             /\ Len(called') <= Len(called)
             /\ position' = position
             /\ ping' = ping]_vars

\* goody0 walked onto the baddy's cell and the round ended there
C9_Witness ==
    /\ status = baddy_wins
    /\ called = <<goody0>>
    /\ position[goody0] = position[baddy]
    /\ position[goody1] = start[goody1]
    /\ position[baddy] = start[baddy]

\* s is t or the beginning of t
IsPrefix(s, t) == Len(s) <= Len(t) /\ \A i \in 1..Len(s) : s[i] = t[i]

\* the positions are one step apart at most
AtMostOneStep(a, b) ==
    (IF a.x >= b.x THEN a.x - b.x ELSE b.x - a.x) + (IF a.y >= b.y THEN a.y - b.y ELSE b.y - a.y) <= 1

\* C10: in a round take_turn is called on goody0, then goody1, then the
\* baddy, each once at most; a position changes only in the turn of its
\* player, by one step, so once per round at most; and the check after a
\* turn is made on the positions as the earlier turns of the round left them.
C10_TurnOrder ==
    /\ [](/\ IsPrefix(called, <<goody0, goody1, baddy>>)
          /\ pc = "turn" => Len(called) = idx - 1
          /\ \A player \in Players :
                /\ AtMostOneStep(position[player], start[player])
                /\ position[player] # start[player] => \E i \in 1..Len(called) : called[i] = player)
    /\ [][position' # position =>
             \E i \in 1..3 :
                /\ pc = "turn" /\ idx = i
                /\ called' = Append(called, <<goody0, goody1, baddy>>[i])
                /\ \A j \in 1..3 : j # i =>
                      position'[<<goody0, goody1, baddy>>[j]] = position[<<goody0, goody1, baddy>>[j]]]_vars
    /\ [][(pc = "turn" /\ status' = goodies_win) => position'[goody0] = position'[goody1]]_vars

\* goody0 moved, then goody1 stepped onto the cell goody0 had moved to
C10_Witness ==
    /\ status = goodies_win
    /\ called = <<goody0, goody1>>
    /\ position[goody0] # start[goody0]
    /\ position[goody1] # start[goody1]
    /\ position[goody1] = position[goody0]

\* C11: the players of a round are all handed a ping response when a Goody's
\* PING was handled in the round before, and are all handed None when none
\* was; the ping flag is cleared when the responses are made, so the flag is
\* set exactly when a PING has been handled since the responses were last
\* made, and one PING gives responses in one round only.
C11_PingInfoFollowsPing ==
    /\ [][(DoRoundCalled /\ pc' = "turn") =>
             /\ pinged => \A player \in Players : ping_response'[player] # None
             /\ ~pinged => \A player \in Players : ping_response'[player] = None
             /\ ping' = FALSE]_vars
    /\ [][(pc = "turn" /\ called' # called) =>
             passed' = Append(passed, ping_response[players[idx]])]_vars
    /\ [](\A i, j \in 1..Len(passed) : (passed[i] = None) <=> (passed[j] = None))
    /\ [](ping <=> pinged)

\* C12: a ping response handed to player A in a round maps each of the two
\* other players B to an offset that, added to A's position at the start of
\* the round, gives B's position at the start of the round, also when
\* players have moved earlier in the round.
C12_PingOffsets ==
    /\ Len(passed) = Len(called)
    /\ \A i \in 1..Len(passed) :
          passed[i] # None =>
              /\ DOMAIN passed[i][1] = Players \ {called[i]}
              /\ \A B \in Players \ {called[i]} :
                    /\ passed[i][1][B].x + start[called[i]].x = start[B].x
                    /\ passed[i][1][B].y + start[called[i]].y = start[B].y

\* the baddy was handed a ping response after both goodies had moved in the round
C12_Witness ==
    /\ Len(passed) = 3
    /\ passed[3] # None
    /\ position[goody0] # start[goody0]
    /\ position[goody1] # start[goody1]

\* the cell one step from pos in direction d is not space
Blocked(pos, d) ==
    LET to == CASE d = UP -> [x |-> pos.x, y |-> pos.y + 1]
                [] d = DOWN -> [x |-> pos.x, y |-> pos.y - 1]
                [] d = LEFT -> [x |-> pos.x - 1, y |-> pos.y]
                [] d = RIGHT -> [x |-> pos.x + 1, y |-> pos.y]
    IN \/ to.x < 0 \/ to.x >= maze.width
       \/ to.y < 0 \/ to.y >= maze.height
       \/ Cell(to) # Maze_space

\* C13: a turn on which a Goody returns PING sets the ping flag, changes no
\* player's position, and leaves the status in_play.
C13_GoodyPing ==
    [][\A player \in {goody0, goody1} :
          (TurnOf(player) /\ take_turn(Object(PING))) =>
              /\ ping' = TRUE
              /\ position' = position
              /\ status' = in_play]_vars

\* goody1 has pinged on its turn, after goody0 had moved without pinging
C13_Witness ==
    /\ called = <<goody0, goody1>>
    /\ pc = "turn"
    /\ ping
    /\ position[goody0] # start[goody0]
    /\ position[goody1] = start[goody1]
    /\ status = in_play

\* C14: a turn on which the player returns STAY, or a direction obstructed at
\* its position, or PING when it is the Baddy, leaves that player's position,
\* the ping flag and the status exactly as they were.
C14_NoOpTurns ==
    [][\A player \in Players : \A action \in {STAY, UP, DOWN, LEFT, RIGHT, PING} :
          (/\ TurnOf(player)
           /\ take_turn(Object(action))
           /\ \/ action = STAY
              \/ action \in {UP, DOWN, LEFT, RIGHT} /\ Blocked(position[player], action)
              \/ action = PING /\ player = baddy) =>
              /\ position'[player] = position[player]
              /\ ping' = ping
              /\ status' = status]_vars

\* the baddy's turn left everything as it was, with a ping pending from a
\* goody and the baddy hemmed in on two sides
C14_Witness ==
    /\ called = <<goody0, goody1, baddy>>
    /\ position[baddy] = start[baddy]
    /\ Blocked(position[baddy], UP)
    /\ Blocked(position[baddy], LEFT)
    /\ ping
    /\ status = in_play

\* the unit step of a direction: UP = (0, +1), DOWN = (0, -1), LEFT = (-1, 0), RIGHT = (+1, 0)
Delta(d) ==
    CASE d = UP -> [x |-> 0, y |-> 1]
      [] d = DOWN -> [x |-> 0, y |-> -1]
      [] d = LEFT -> [x |-> -1, y |-> 0]
      [] d = RIGHT -> [x |-> 1, y |-> 0]

\* C15: a turn on which the player returns a direction that is not
\* obstructed at its position puts the player at its position plus the unit
\* step of the direction, and changes no other player's position.
C15_UnobstructedStep ==
    [][\A player \in Players : \A action \in {UP, DOWN, LEFT, RIGHT} :
          (TurnOf(player) /\ take_turn(Object(action)) /\ ~Blocked(position[player], action)) =>
              /\ position'[player].x = position[player].x + Delta(action).x
              /\ position'[player].y = position[player].y + Delta(action).y
              /\ \A other \in Players \ {player} : position'[other] = position[other]]_vars

\* goody0 has gone up and the baddy has gone left in the same round
C15_Witness ==
    /\ called = <<goody0, goody1, baddy>>
    /\ position[goody0] = [x |-> start[goody0].x, y |-> start[goody0].y + 1]
    /\ position[baddy] = [x |-> start[baddy].x - 1, y |-> start[baddy].y]

\* C16: a turn on which take_turn returns a value that is none of the six
\* moves makes do_round raise: no status is returned, no later player of the
\* round is asked, play is left too when it is the caller, and nothing of the
\* game is changed as a legal move would change it.
C16_InvalidMoveRaises ==
    [][\A action \in Others :
          (pc = "turn" /\ take_turn(action)) =>
              /\ result' \in {"KeyError", "TypeError", "ValueError"} \cup Raisable
              /\ pc' = "idle"
              /\ ~playing'
              /\ play_ret' = play_ret
              /\ position' = position
              /\ ping' = ping
              /\ status' = status]_vars

\* the open cells of the maze
OpenCells == {pos \in Extent(maze) : Cell(pos) = Maze_space}

\* C17: while players are being placed and once the Game is made, the
\* players placed are goody0, then goody1, then the baddy, each on a cell
\* inside the maze that is space, no two on the same cell, whatever is
\* drawn; and a Game that is made has all three placed, round 0, the ping
\* flag false and status not_started.
C17_PlacedOnDistinctOpenCells ==
    pc \in {"place", "idle"} =>
        /\ \E n \in 0..3 : DOMAIN position = {<<goody0, goody1, baddy>>[i] : i \in 1..n}
        /\ \A player \in DOMAIN position : position[player] \in OpenCells
        /\ \A a, b \in DOMAIN position : a # b => position[a] # position[b]
        /\ pc = "idle" =>
              /\ DOMAIN position = Players
              /\ position \in Placements(maze)
              /\ round = Some(0)
              /\ ping = Some(FALSE)
              /\ status = Some(not_started)

\* the Game is made, with the three players on three cells
C17_Witness ==
    /\ pc = "idle"
    /\ DOMAIN position = Players
    /\ status = Some(not_started)
    /\ Cardinality({position[player] : player \in Players}) = 3

\* C18: no Game is made on a maze with fewer than three open cells, and
\* there construction ends in the error; a draw that fails when the
\* attempts of a player are used up ends construction in the error, with no
\* Game made.
C18_PlacementFails ==
    /\ [](pc = "idle" => Cardinality(OpenCells) >= 3)
    /\ [](attempts < max_attempts)
    /\ [][(pc = "place" /\ attempts = max_attempts - 1 /\ position' = position) =>
             (pc' = "failed" /\ result' = "ValueError")]_vars
    /\ [](pc = "failed" => (result = "ValueError" /\ status = None))
    /\ (Cardinality(OpenCells) < 3) ~> (pc = "failed")

\* construction failed on the third player of a maze with two open cells
C18_Witness ==
    /\ pc = "failed"
    /\ idx = 3
    /\ Cardinality(OpenCells) = 2
    /\ attempts = max_attempts - 1

\* C19: on the open 3 x 3 maze with goody0 at (0, 0), goody1 at (2, 2) and
\* the baddy at (1, 1), when each goody goes straight for the other, then
\* whatever the baddy does: the goodies are on one cell only with the result
\* goodies_win and within 2 rounds, and once both goodies have had their
\* turn of round 2 without a goody on the baddy's cell, the result is
\* goodies_win.
C19_GoodiesMeetInTwoRounds ==
    /\ position[goody0] = position[goody1] => (status = goodies_win /\ round <= 2)
    /\ status = goodies_win => (round <= 2 /\ result = goodies_win)
    /\ (/\ round = 2
        /\ Len(called) >= 2
        /\ position[goody0] # position[baddy]
        /\ position[goody1] # position[baddy]) => status = goodies_win
    /\ round > 2 => status \in Terminal

\* the goodies have met in round 2 on the cell the baddy started from
C19_Witness ==
    /\ status = goodies_win
    /\ round = 2
    /\ position[goody0] = [x |-> 1, y |-> 1]
    /\ position[goody1] = [x |-> 1, y |-> 1]
    /\ position[baddy] # [x |-> 1, y |-> 1]

\* the query that was answered last is the read of the cell at a position
Read(index) == query # None /\ query[1].op = "getitem" /\ query[1].index = index

\* C20: a position outside [0, width) x [0, height) reads as wall, and
\* obstruction(p)[d] is true exactly when the cell at p + delta(d) is a wall
\* (so it is true for every direction that leads out of the maze).
C20_ReadsAndObstruction ==
    /\ \A index \in Queried(maze) :
          (Read(index) /\ index \notin Extent(maze)) => query[1].value = Maze_wall
    /\ (query # None /\ query[1].op = "obstruction") =>
          \A d \in {UP, DOWN, LEFT, RIGHT} :
              /\ query[1].value[d] =
                    (Maze_getitem(maze, Position_add(query[1].index, Delta(d))) = Maze_wall)
              /\ Position_add(query[1].index, Delta(d)) \notin Extent(maze) => query[1].value[d]

\* the step is an assignment maze[index] = value
IsSetItem == query' # None /\ query'[1].op = "setitem"

\* C21: maze[index] = value with a cell value and an index outside
\* [0, width) x [0, height) raises IndexError and leaves the maze as it was;
\* with an index inside it raises nothing and changes the cell at index to
\* value and no other cell; no assignment changes width or height (one of a
\* value that is no cell value raises ValueError and changes nothing).
C21_SetItem ==
    [][IsSetItem =>
          LET index == query'[1].index
              value == query'[1].value
          IN /\ maze'.width = maze.width /\ maze'.height = maze.height
             /\ (value \in {Maze_space, Maze_wall} /\ index \notin Extent(maze)) =>
                   (query'[1].raised = "IndexError" /\ maze' = maze)
             /\ (value \in {Maze_space, Maze_wall} /\ index \in Extent(maze)) =>
                   /\ query'[1].raised = "none"
                   /\ Maze_getitem(maze', index) = value
                   /\ \A other \in Extent(maze) \ {index} :
                         Maze_getitem(maze', other) = Maze_getitem(maze, other)
             /\ value \notin {Maze_space, Maze_wall} =>
                   (query'[1].raised = "ValueError" /\ maze' = maze)]_vars

\* an assignment of a wall just above the top row was refused, on a maze
\* that has a wall and a space
C21_Witness ==
    /\ query # None
    /\ query[1].op = "setitem"
    /\ query[1].raised = "IndexError"
    /\ query[1].value = Maze_wall
    /\ query[1].index.y = maze.height
    /\ query[1].index.x \in 0..(maze.width - 1)
    /\ \E other \in Extent(maze) : Maze_getitem(maze, other) = Maze_space
    /\ \E other \in Extent(maze) : Maze_getitem(maze, other) = Maze_wall

\* the arguments of the call Maze(width, height, data)
Args == query[1]

\* C22: Maze(width, height, data) raises whenever the length of data is not
\* width * height or data holds a character other than "0" and "1", and
\* every cell of a Maze that is made is space or wall.
C22_LayoutChecked ==
    pc \in {"made", "failed"} =>
        /\ (/\ Args.data # None
            /\ \/ Len(Args.data[1]) # Args.width * Args.height
               \/ \E i \in 1..Len(Args.data[1]) : Args.data[1][i] \notin {"0", "1"})
              => pc = "failed"
        /\ pc = "made" =>
              \A index \in Extent(maze[1]) :
                  Maze_getitem(maze[1], index) \in {Maze_space, Maze_wall}

\* the character of data that the layout has for the cell at (x, y), when
\* the rows of data are taken to run from row y = height - 1 down to row 0
FromTop(x, y) == Args.data[1][(Args.height - 1 - y) * Args.width + x + 1]

\* the same, when the rows of data are taken to run from row y = 0 upward
FromBottom(x, y) == Args.data[1][y * Args.width + x + 1]

\* C23 as amended: the first width characters of data describe the row
\* y = height - 1, and the cell at (x, y) of the Maze made from data is the
\* value of the character of data at (height - 1 - y) * width + x.
C23_RowsFromTop ==
    (pc = "made" /\ Args.data # None) =>
        \A index \in Extent(maze[1]) :
            Maze_getitem(maze[1], index) = int(FromTop(index.x, index.y))

\* C23 as stated: the cell at (x, y) of the Maze made from data is the
\* value of the character of data at y * width + x.
C23_RowsFromBottom ==
    (pc = "made" /\ Args.data # None) =>
        \A index \in Extent(maze[1]) :
            Maze_getitem(maze[1], index) = int(FromBottom(index.x, index.y))

\* the Maze made from "0100" with width 2 and height 2 was read at (1, 1),
\* where it has the wall
C23_Witness ==
    /\ pc = "made"
    /\ Args.width = 2 /\ Args.height = 2
    /\ Args.data = Some(<<"0", "1", "0", "0">>)
    /\ Maze_getitem(maze[1], [x |-> 1, y |-> 1]) = Maze_wall
    /\ play_ret = Some(Maze_wall)

\* C24: for repeat counts of at least 1, maze * (x_repeats, y_repeats) has
\* width maze.width * x_repeats and height maze.height * y_repeats, and its
\* cell at (x, y) is the cell of maze at (x mod width, y mod height); an
\* assignment to a cell of the product afterwards leaves maze as it was, and
\* changes no other cell of the product.
C24_Tiled ==
    /\ [](\A xr, yr \in 1..MaxRepeat :
             (query = Some([op |-> "mul", x_repeats |-> xr, y_repeats |-> yr])) =>
                 /\ tiled[1].width = maze.width * xr
                 /\ tiled[1].height = maze.height * yr
                 /\ \A index \in Extent(tiled[1]) :
                       Maze_getitem(tiled[1], index) =
                          Maze_getitem(maze, [x |-> index.x % maze.width,
                                              y |-> index.y % maze.height]))
    /\ [][(/\ tiled # None /\ made_by = "mul"
           /\ calls' = calls + 1 /\ tiled[1].width >= 1 /\ tiled[1].height >= 1) =>
             /\ maze' = maze
             /\ tiled'[1].width = tiled[1].width /\ tiled'[1].height = tiled[1].height
             /\ \A other \in Extent(tiled[1]) \ {query'[1].index} :
                   Maze_getitem(tiled'[1], other) = Maze_getitem(tiled[1], other)
             /\ query'[1].raised = "none" =>
                   Maze_getitem(tiled'[1], query'[1].index) = query'[1].value]_vars

\* a cell of a product of two rows of repeats was changed
C24_Witness ==
    /\ tiled # None
    /\ tiled[1].height = 2 * maze.height
    /\ calls = 1
    /\ query[1].op = "tiled_setitem"
    /\ query[1].of = "mul"
    /\ query[1].raised = "none"
    /\ \E index \in Extent(tiled[1]) :
          Maze_getitem(tiled[1], index) #
             Maze_getitem(maze, [x |-> index.x % maze.width, y |-> index.y % maze.height])

\* C25: for Positions p and q with components in a bounded range,
\* (p + q) - q equals p, -(-p) equals p, and p + q equals q + p, where two
\* Positions are equal when both components are.
C25_PositionAlgebra ==
    /\ query[1].op = "add_sub" =>
          (Position_eq(query[1].value, query[1].p) /\ query[1].value = query[1].p)
    /\ query[1].op = "neg_neg" =>
          (Position_eq(query[1].value, query[1].p) /\ query[1].value = query[1].p)
    /\ query[1].op = "add" =>
          /\ Position_eq(query[1].value, query[1].swapped)
          /\ query[1].value = [x |-> query[1].p.x + query[1].q.x, y |-> query[1].p.y + query[1].q.y]

\* (p + q) - q was computed for p and q that differ in both components and
\* have negative and positive ones
C25_Witness ==
    /\ query[1].op = "add_sub"
    /\ query[1].p = [x |-> -1, y |-> 2]
    /\ query[1].q = [x |-> 2, y |-> -2]
    /\ query[1].value = [x |-> -1, y |-> 2]

\* C26: while the status is not_started or in_play, goody0, goody1 and the
\* baddy are on three different cells: after construction, after every
\* do_round call that is completed, and between the turns of a round.
C26_NoSharedCellWhileLive ==
    status \in {not_started, in_play} =>
        /\ position[goody0] # position[goody1]
        /\ position[goody0] # position[baddy]
        /\ position[goody1] # position[baddy]

\* two rounds are completed, the game is in play, and every player has
\* left the cell it had at the start of the round
C26_Witness ==
    /\ pc = "idle"
    /\ status = in_play
    /\ round = 2
    /\ \A player \in Players : position[player] # start[player]

\* C27: a terminal status agrees with the state it is left in: with
\* goodies_win the two goodies are on one cell; with baddy_wins the baddy is
\* on the cell of a goody and the goodies are on two cells; with draw round
\* is max_rounds; and with goodies_win or baddy_wins, when max_rounds is at
\* least 1, round is at least 1 and less than max_rounds.
C27_TerminalAgrees ==
    /\ status = goodies_win => position[goody0] = position[goody1]
    /\ status = baddy_wins =>
          /\ position[baddy] \in {position[goody0], position[goody1]}
          /\ position[goody0] # position[goody1]
    /\ status = draw => round = max_rounds
    /\ (status \in {goodies_win, baddy_wins} /\ max_rounds >= 1) =>
          (1 <= round /\ round < max_rounds)

\* the baddy has caught goody1 by a move of its own, in the second round
C27_Witness ==
    /\ status = baddy_wins
    /\ round = 2
    /\ position[baddy] = position[goody1]
    /\ position[baddy] # start[baddy]
    /\ pc = "idle"

\* C28: for every Obstruction, RandomGoody.take_turn and
\* RandomBaddy.take_turn return one of the six moves, and never a direction
\* that the Obstruction has as obstructed.
C28_RandomPlayersLegal ==
    query[1].op \in {"RandomGoody.take_turn", "RandomBaddy.take_turn"} =>
        /\ query[1].returned.raised = "none"
        /\ query[1].returned.value # None
        /\ query[1].returned.value[1] \in Moves
        /\ query[1].returned.value[1] \in {UP, DOWN, LEFT, RIGHT} =>
              ~query[1].obstruction[query[1].returned.value[1]]

\* C29: in a game on any maze, from any open cell, the TPWGoody never
\* reaches the branch of stuck_choice that exits: whenever it is in stuck
\* mode when it chooses its move, it has 1 or 2 directions allowed.
C29_StuckChoiceNeverExits ==
    /\ result # "SystemExit"
    /\ pc # "exited"
    /\ (pc = "turn" /\ players[idx] = goody0) =>
          LET scan == TPWGoody_scan(tpw[1], Maze_obstruction(maze, position[goody0]))
          IN scan.self.is_stuck => Len(scan.allowed) \in {1, 2}

====
